---- MODULE Spec2Model ----
(***************************************************************************)
(* A model of TestingApplicationService (src/src/services/testing.py):     *)
(* the testing-attempt lifecycle (the start and complete handlers) and     *)
(* the attempt listing operations (get_test_attempts, get_user_attempts).  *)
(*                                                                         *)
(* Three specifications share the variables:                               *)
(*   Spec         requests served one after another: every handler is one  *)
(*                action, the clock and the vacancy state move between     *)
(*                requests;                                                *)
(*   SpecListing  the listing operations over attempt stores drawn from a  *)
(*                bounded set of stores the lifecycle can produce;         *)
(*   SpecConc     the complete handlers split at their awaits, interleaved *)
(*                with other requests that change the vacancy state.       *)
(*                                                                         *)
(* The repositories and the permission/state filters are imported by       *)
(* testing.py from other modules of the repository; they are modelled from *)
(* their contracts in spec.md (sections 4.1 and 6).                        *)
(***************************************************************************)
EXTENDS Integers, Sequences, FiniteSets, TLC

VARIABLES
    vacancies,      \* VacancyRepo: vacancy id -> [state, test_time]
    testings,       \* TestingRepo: testing id -> [id, vacancy_id]
    attempts,       \* AttemptRepo: sequence of Attempt rows, in creation order
    now,            \* wall clock (datetime.now()), in days
    call,           \* the request being answered: caller, arguments, outcome
    req             \* SpecConc: per user, the complete coroutine in flight

vars == <<vacancies, testings, attempts, now, call, req>>

(***************************************************************************)
(* Bounds.                                                                 *)
(***************************************************************************)
MaxClock == 2

MaxAttempts == 2

(***************************************************************************)
(* Data.                                                                   *)
(***************************************************************************)
\* Python's None: as an id or a string argument, and as a row that is absent.
None == "None"

NoRow == [none |-> TRUE]

UserIds == {"u1", "u2"}

\* t1 and t2 belong to vacancy v1; t3 is an orphan (its vacancy v3 is not in
\* the store); t4 is in no store.
TestingIds == {"t1", "t2", "t3", "t4"}

VacancyState == {"OPENED", "CLOSED"}

UserState == {"ACTIVE", "INACTIVE"}

TestTimes == {0, 1}

\* Permission values (permission.py).
GET_TESTING == "GET_TESTING"

START_TESTING == "START_TESTING"

COMPLETE_TESTING == "COMPLETE_TESTING"

GET_SELF_TEST_RESULTS == "GET_TEST_RESULTS"

GET_USER_TEST_RESULTS == "GET_USER_TEST_RESULTS"

\* The permissions of the two roles permission.py groups them by.
UserPermissions ==
    {GET_TESTING, START_TESTING, COMPLETE_TESTING, GET_SELF_TEST_RESULTS}

HRPermissions ==
    {"GET_PRIVATE_VACANCY", "CREATE_VACANCY", "UPDATE_VACANCY", "DELETE_VACANCY",
     "CREATE_TESTING", "UPDATE_TESTING", "DELETE_TESTING", GET_USER_TEST_RESULTS}

\* current_user, injected per request: any id with either role in any state.
Callers ==
    [id : UserIds, permissions : {UserPermissions, HRPermissions}, state : UserState]

\* The callers of the lifecycle handlers: both users as active candidates,
\* and one caller for each way of failing the guards (no permission, not
\* active, neither).
LifecycleCallers ==
    {c \in Callers :
        \/ c.permissions = UserPermissions /\ c.state = "ACTIVE"
        \/ c.id = "u1" /\ (c.permissions = UserPermissions \/ c.state = "ACTIVE")
        \/ c.id = "u2" /\ c.permissions = HRPermissions /\ c.state = "INACTIVE"}

(***************************************************************************)
(* Repositories (contracts of spec.md section 6).                          *)
(***************************************************************************)
TestingRepo_get(id) ==
    IF id \in DOMAIN testings THEN testings[id] ELSE NoRow

VacancyRepo_get(id) ==
    IF id \in DOMAIN vacancies THEN vacancies[id] ELSE NoRow

\* The question stores are read-only here; a question is its id.
TheoreticalQuestionRepo_get_all(testing_id) ==
    CASE testing_id = "t1" -> <<"tq1", "tq2">>
      [] testing_id = "t2" -> <<"tq3">>
      [] OTHER -> <<>>

PracticalQuestionRepo_get_all(testing_id) ==
    CASE testing_id = "t1" -> <<"pq1">>
      [] testing_id = "t2" -> <<"pq2">>
      [] OTHER -> <<>>

\* The rows of user_id on test_id, as indexes into the store.
AttemptsOf(store, user_id, test_id) ==
    {i \in 1..Len(store) :
        store[i].user_id = user_id /\ store[i].testing_id = test_id}

\* get_first: the earliest attempt of the user on the testing, or None. Rows
\* with equal created_at are not ordered by the contract: any of them may be
\* returned, so the result is the set of rows the call can return.
AttemptRepo_get_first(store, user_id, test_id) ==
    LET mine == AttemptsOf(store, user_id, test_id)
    IN  IF mine = {} THEN {NoRow}
        ELSE {store[i] : i \in {j \in mine :
                 \A k \in mine : store[j].created_at <= store[k].created_at}}

\* The title of a testing, as a rank in the order of titles (t2 sorts first).
TitleRank(testing_id) == IF testing_id = "t2" THEN 1 ELSE 2

OrderKey(row, order_by) ==
    IF order_by = "title" THEN TitleRank(row.testing_id) ELSE row.created_at

\* The rows of store at the indexes in S, ordered by order_by; rows with equal
\* keys keep their creation order.
RECURSIVE Ordered(_, _, _)
Ordered(store, S, order_by) ==
    IF S = {} THEN <<>>
    ELSE LET first == CHOOSE i \in S : \A j \in S :
                         \/ OrderKey(store[i], order_by) < OrderKey(store[j], order_by)
                         \/ /\ OrderKey(store[i], order_by) = OrderKey(store[j], order_by)
                            /\ i <= j
         IN  <<store[first]>> \o Ordered(store, S \ {first}, order_by)

\* LIMIT limit OFFSET offset over a sequence of rows.
Page(rows, limit, offset) ==
    IF offset >= Len(rows) THEN <<>>
    ELSE SubSeq(rows, offset + 1,
                IF Len(rows) - offset < limit THEN Len(rows) ELSE offset + limit)

\* get_all: the rows matching the filters that are given (None: no filter),
\* ordered, paged.
AttemptRepo_get_all(store, q) ==
    Page(Ordered(store,
                 {i \in 1..Len(store) :
                    /\ q.user_id = None \/ store[i].user_id = q.user_id
                    /\ q.testing_id = None \/ store[i].testing_id = q.testing_id},
                 q.order_by),
         q.limit, q.offset)

\* search: as get_all, over the rows the query matches. What matches is the
\* repository's business; here a row matches when the query is the id of its
\* testing.
AttemptRepo_search(store, q) ==
    Page(Ordered(store,
                 {i \in 1..Len(store) :
                    /\ q.user_id = None \/ store[i].user_id = q.user_id
                    /\ store[i].testing_id = q.query},
                 q.order_by),
         q.limit, q.offset)

\* create: a new row; id and created_at are set by the store.
AttemptRepo_create(store, clock, user_id, testing_id, correct_answers, total_answers) ==
    [id |-> Len(store) + 1,
     user_id |-> user_id,
     testing_id |-> testing_id,
     correct_answers |-> correct_answers,
     total_answers |-> total_answers,
     created_at |-> clock]

(***************************************************************************)
(* Guards (contract of spec.md section 4.1). The outer decorator runs      *)
(* first: permission_filter, then state_filter, then the body.             *)
(***************************************************************************)
permission_filter(permission, user) == permission \in user.permissions

state_filter(state, user) == user.state = state

(***************************************************************************)
(* Responses. error is "none" or the exception raised; check names the     *)
(* check that raised it; trace lists the repository calls made, in order.  *)
(***************************************************************************)
NoArgs ==
    [testing_id |-> None, page |-> 0, per_page |-> 0, order_by |-> None,
     query |-> None, user_id |-> None]

NoQuery ==
    [method |-> None, limit |-> 0, offset |-> 0, order_by |-> None,
     query |-> None, user_id |-> None, testing_id |-> None]

Idle ==
    [op |-> "idle", user |-> NoRow, args |-> NoArgs, error |-> "none",
     check |-> "none", trace |-> <<>>, result |-> NoRow, query |-> NoQuery]

Response(op, user, args, error, check, trace, result) ==
    [op |-> op, user |-> user, args |-> args, error |-> error,
     check |-> check, trace |-> trace, result |-> result, query |-> NoQuery]

LifecycleArgs(testing_id) == [NoArgs EXCEPT !.testing_id = testing_id]

(***************************************************************************)
(* The body shared, line for line, by the four lifecycle handlers: load    *)
(* the testing, load its vacancy, require it OPENED, then the deadline     *)
(* check against the caller's first attempt. first_attempt is what         *)
(* get_first returns if the body gets that far. The result is the          *)
(* response of the failing check, or error "none" with the trace so far.   *)
(***************************************************************************)
FirstAttempt_latest(user, testing_id) ==
    LET mine == AttemptsOf(attempts, user.id, testing_id)
    IN  IF mine = {} THEN {NoRow}
        ELSE {attempts[CHOOSE i \in mine : \A j \in mine : j <= i]}

\* get_first(user_id=self._current_user.id, test_id=testing_id): the rows the
\* call can return.
FirstAttempt(user, testing_id) ==
    AttemptRepo_get_first(attempts, user.id, testing_id)

DeadlineExpired_inclusive(first_attempt, vacancy, time_now) ==
    /\ first_attempt # NoRow
    /\ time_now >= first_attempt.created_at + vacancy.test_time

DeadlineExpired(first_attempt, vacancy, time_now) ==
    /\ first_attempt # NoRow
    /\ time_now > first_attempt.created_at + vacancy.test_time

VacancyOpened_unchecked(vacancy) == TRUE

VacancyOpened(vacancy) == vacancy.state = "OPENED"

TestingNotFound_BadRequest(op, user, args) ==
    Response(op, user, args, "BadRequest", "testing", <<"testing.get">>, NoRow)

TestingNotFound(op, user, args) ==
    Response(op, user, args, "NotFound", "testing", <<"testing.get">>, NoRow)

LifecycleChecks(op, user, testing_id, first_attempt) ==
    LET args == LifecycleArgs(testing_id)
        testing == TestingRepo_get(testing_id)
    IN  IF testing = NoRow
        THEN TestingNotFound(op, user, args)
        ELSE
        LET vacancy == VacancyRepo_get(testing.vacancy_id)
        IN  IF vacancy = NoRow
            THEN Response(op, user, args, "NotFound", "vacancy",
                          <<"testing.get", "vacancy.get">>, NoRow)
            ELSE IF ~VacancyOpened(vacancy)
            THEN Response(op, user, args, "BadRequest", "vacancy_state",
                          <<"testing.get", "vacancy.get">>, NoRow)
            ELSE IF DeadlineExpired(first_attempt, vacancy, now)
            THEN Response(op, user, args, "BadRequest", "deadline",
                          <<"testing.get", "vacancy.get", "attempt.get_first">>, NoRow)
            ELSE Response(op, user, args, "none", "none",
                          <<"testing.get", "vacancy.get", "attempt.get_first">>, NoRow)

Guarded_state_first(op, permission, user, args, body) ==
    IF ~state_filter("ACTIVE", user)
    THEN Response(op, user, args, "InvalidState", "state", <<>>, NoRow)
    ELSE IF ~permission_filter(permission, user)
    THEN Response(op, user, args, "Forbidden", "permission", <<>>, NoRow)
    ELSE body

\* The decorators around a lifecycle handler.
Guarded(op, permission, user, args, body) ==
    IF ~permission_filter(permission, user)
    THEN Response(op, user, args, "Forbidden", "permission", <<>>, NoRow)
    ELSE IF ~state_filter("ACTIVE", user)
    THEN Response(op, user, args, "InvalidState", "state", <<>>, NoRow)
    ELSE body

(***************************************************************************)
(* The start handlers: hand out the questions; no attempt is created.                 *)
(***************************************************************************)
StartResponse(op, user, testing_id, first_attempt, questions, repo) ==
    LET checked == LifecycleChecks(op, user, testing_id, first_attempt)
    IN  Guarded(op, START_TESTING, user, LifecycleArgs(testing_id),
            IF checked.error # "none" THEN checked
            ELSE [checked EXCEPT !.trace = Append(@, repo),
                                 !.result = questions])

start_practical_testing ==
    /\ call = Idle
    /\ \E user \in LifecycleCallers, testing_id \in TestingIds :
       \E first_attempt \in FirstAttempt(user, testing_id) :
          call' = StartResponse("start_practical_testing", user, testing_id,
                      first_attempt, PracticalQuestionRepo_get_all(testing_id),
                      "practical_question.get_all")
    /\ UNCHANGED <<vacancies, testings, attempts, now, req>>

start_theoretical_testing ==
    /\ call = Idle
    /\ \E user \in LifecycleCallers, testing_id \in TestingIds :
       \E first_attempt \in FirstAttempt(user, testing_id) :
          call' = StartResponse("start_theoretical_testing", user, testing_id,
                      first_attempt, TheoreticalQuestionRepo_get_all(testing_id),
                      "theoretical_question.get_all")
    /\ UNCHANGED <<vacancies, testings, attempts, now, req>>

(***************************************************************************)
(* The complete handlers: read the questions, score (always 0: scoring is *)
(* a todo), create the attempt, return it with the testing embedded.         *)
(***************************************************************************)
NewAttempt_scored(user, testing_id, questions) ==
    AttemptRepo_create(attempts, now, user.id, testing_id,
                       Len(questions), Len(questions))

NewAttempt(user, testing_id, questions) ==
    LET correct_answers == 0
    IN  AttemptRepo_create(attempts, now, user.id, testing_id,
                           correct_answers, Len(questions))

CompleteResponse(op, user, testing_id, first_attempt, questions, repo) ==
    LET checked == LifecycleChecks(op, user, testing_id, first_attempt)
    IN  Guarded(op, COMPLETE_TESTING, user, LifecycleArgs(testing_id),
            IF checked.error # "none" THEN checked
            ELSE [checked EXCEPT
                    !.trace = @ \o <<repo, "attempt.create">>,
                    !.result = [attempt |-> NewAttempt(user, testing_id, questions),
                                test |-> TestingRepo_get(testing_id)]])

\* The store after the handler: one row more if, and only if, it succeeded.
Completed(response) ==
    IF response.error = "none"
    THEN Append(attempts, response.result.attempt)
    ELSE attempts

complete_theoretical_testing ==
    /\ call = Idle
    /\ \E user \in LifecycleCallers, testing_id \in TestingIds :
       \E first_attempt \in FirstAttempt(user, testing_id) :
          /\ call' = CompleteResponse("complete_theoretical_testing", user,
                         testing_id, first_attempt,
                         TheoreticalQuestionRepo_get_all(testing_id),
                         "theoretical_question.get_all")
          /\ attempts' = Completed(call')
          /\ Len(attempts') <= MaxAttempts
    /\ UNCHANGED <<vacancies, testings, now, req>>

complete_practical_testing ==
    /\ call = Idle
    /\ \E user \in LifecycleCallers, testing_id \in TestingIds :
       \E first_attempt \in FirstAttempt(user, testing_id) :
          /\ call' = CompleteResponse("complete_practical_testing", user,
                         testing_id, first_attempt,
                         PracticalQuestionRepo_get_all(testing_id),
                         "practical_question.get_all")
          /\ attempts' = Completed(call')
          /\ Len(attempts') <= MaxAttempts
    /\ UNCHANGED <<vacancies, testings, now, req>>

(***************************************************************************)
(* The listing handlers.                                                   *)
(***************************************************************************)
per_page_limit == 40

MaxOffset == 2147483646

PaginationError_size_first(page, per_page) ==
    IF per_page < 1 THEN "BadRequest"
    ELSE IF page < 1 THEN "NotFound"
    ELSE "none"

\* The two argument checks, in the handlers' order.
PaginationError(page, per_page) ==
    IF page < 1 THEN "NotFound"
    ELSE IF per_page < 1 THEN "BadRequest"
    ELSE "none"

Min(a, b) == IF a <= b THEN a ELSE b

Limit_unclamped(per_page) == per_page

\* per_page = min(per_page, per_page_limit, 2147483646)
Limit(per_page) == Min(Min(per_page, per_page_limit), MaxOffset)

\* offset = min((page - 1) * per_page, 2147483646), per_page being the clamped
\* one. Python's integers are unbounded and TLC's are 32 bits wide, so
\* the product is formed only when it is at most MaxOffset: for per_page >= 1,
\* page - 1 > MaxOffset \div per_page exactly when the product exceeds MaxOffset.
Offset(page, per_page) ==
    IF page - 1 > MaxOffset \div per_page
    THEN MaxOffset
    ELSE (page - 1) * per_page

ListingResponse(op, user, args, error, check, trace, result, q) ==
    [Response(op, user, args, error, check, trace, result) EXCEPT !.query = q]

\* The body of both listing handlers up to the repository call.
ListingChecks(op, user, args) ==
    LET error == PaginationError(args.page, args.per_page)
    IN  IF error = "NotFound"
        THEN Response(op, user, args, "NotFound", "page", <<>>, NoRow)
        ELSE IF error = "BadRequest"
        THEN Response(op, user, args, "BadRequest", "per_page", <<>>, NoRow)
        ELSE Response(op, user, args, "none", "none", <<>>, NoRow)

SelfAttemptsQuery_all_users(user, args) ==
    [method |-> "get_all",
     limit |-> Limit(args.per_page),
     offset |-> Offset(args.page, Limit(args.per_page)),
     order_by |-> args.order_by,
     query |-> None,
     user_id |-> None,
     testing_id |-> args.testing_id]

\* get_all(limit, offset, order_by, user_id=current_user.id, testing_id)
SelfAttemptsQuery(user, args) ==
    [method |-> "get_all",
     limit |-> Limit(args.per_page),
     offset |-> Offset(args.page, Limit(args.per_page)),
     order_by |-> args.order_by,
     query |-> None,
     user_id |-> user.id,
     testing_id |-> args.testing_id]

\* A query string that is empty or None is falsy: get_all; otherwise search.
UserAttemptsQuery(user, args) ==
    [method |-> IF args.query \in {None, ""} THEN "get_all" ELSE "search",
     limit |-> Limit(args.per_page),
     offset |-> Offset(args.page, Limit(args.per_page)),
     order_by |-> args.order_by,
     query |-> IF args.query \in {None, ""} THEN None ELSE args.query,
     user_id |-> args.user_id,
     testing_id |-> None]

RunQuery(store, q) ==
    IF q.method = "search"
    THEN AttemptRepo_search(store, q)
    ELSE AttemptRepo_get_all(store, q)

ListingBody(op, user, args, q) ==
    LET checked == ListingChecks(op, user, args)
    IN  IF checked.error # "none" THEN checked
        ELSE ListingResponse(op, user, args, "none", "none",
                             <<"attempt." \o q.method>>,
                             RunQuery(attempts, q), q)

\* The arguments the listing handlers are called with.
Pages == {-1, 0, 1, 2, 3, 53687092, 53687093, 2147483647}

PerPages == {-1, 0, 1, 2, 40, 41, 2147483647}

OrderBys == {"title", "created_at"}

get_test_attempts ==
    /\ call = Idle
    /\ \E user \in Callers, testing_id \in {None, "t1", "t2"},
          page \in Pages, per_page \in PerPages, order_by \in OrderBys :
          LET args == [NoArgs EXCEPT !.testing_id = testing_id, !.page = page,
                                     !.per_page = per_page, !.order_by = order_by]
          IN  call' = Guarded("get_test_attempts", GET_SELF_TEST_RESULTS, user, args,
                          ListingBody("get_test_attempts", user, args,
                                      SelfAttemptsQuery(user, args)))
    /\ UNCHANGED <<vacancies, testings, attempts, now, req>>

get_user_attempts ==
    /\ call = Idle
    /\ \E user \in Callers, user_id \in {None} \cup UserIds,
          query \in {None, "", "t1"},
          page \in Pages, per_page \in PerPages, order_by \in OrderBys :
          LET args == [NoArgs EXCEPT !.user_id = user_id, !.query = query,
                                     !.page = page, !.per_page = per_page,
                                     !.order_by = order_by]
          IN  call' = Guarded("get_user_attempts", GET_USER_TEST_RESULTS, user, args,
                          ListingBody("get_user_attempts", user, args,
                                      UserAttemptsQuery(user, args)))
    /\ UNCHANGED <<vacancies, testings, attempts, now, req>>

(***************************************************************************)
(* The environment of the service.                                         *)
(***************************************************************************)
\* The response is handed to the transport layer; the service object, built
\* per request, is dropped.
Return ==
    /\ call # Idle
    /\ call' = Idle
    /\ UNCHANGED <<vacancies, testings, attempts, now, req>>

\* Wall-clock time passes.
Tick ==
    /\ call = Idle
    /\ now < MaxClock
    /\ now' = now + 1
    /\ UNCHANGED <<vacancies, testings, attempts, call, req>>

\* Another request (the vacancy service, with a VacancyUpdate carrying a
\* state) changes the state of a vacancy.
update_vacancy_state ==
    /\ call = Idle
    /\ \E id \in DOMAIN vacancies, state \in VacancyState :
          /\ vacancies[id].state # state
          /\ vacancies' = [vacancies EXCEPT ![id].state = state]
    /\ UNCHANGED <<testings, attempts, now, call, req>>

NoRequests == [u \in UserIds |-> [pc |-> "idle"]]

InitStores ==
    /\ \E test_time \in TestTimes, state \in VacancyState :
          vacancies = [v \in {"v1"} |->
                          [id |-> v, state |-> state, test_time |-> test_time]]
    /\ testings = [t \in {"t1", "t2", "t3"} |->
                      [id |-> t, vacancy_id |-> IF t = "t3" THEN "v3" ELSE "v1"]]

Init ==
    /\ InitStores
    /\ attempts = <<>>
    /\ now = 0
    /\ call = Idle
    /\ req = NoRequests

Next ==
    \/ start_practical_testing
    \/ start_theoretical_testing
    \/ complete_theoretical_testing
    \/ complete_practical_testing
    \/ Return
    \/ Tick
    \/ update_vacancy_state

Spec == Init /\ [][Next]_vars

(***************************************************************************)
(* SpecListing: the listing handlers over attempt stores the lifecycle can *)
(* leave behind.                                                           *)
(***************************************************************************)
Row(id, user_id, testing_id, total_answers, created_at) ==
    [id |-> id, user_id |-> user_id, testing_id |-> testing_id,
     correct_answers |-> 0, total_answers |-> total_answers,
     created_at |-> created_at]

ListingStores ==
    {<<>>,
     <<Row(1, "u1", "t1", 2, 0)>>,
     <<Row(1, "u2", "t1", 1, 0), Row(2, "u1", "t2", 1, 0)>>,
     <<Row(1, "u1", "t1", 2, 0), Row(2, "u2", "t1", 2, 1),
       Row(3, "u1", "t2", 1, 1), Row(4, "u2", "t2", 1, 2)>>}

InitListing ==
    /\ InitStores
    /\ attempts \in ListingStores
    /\ now = 2
    /\ call = Idle
    /\ req = NoRequests

NextListing ==
    \/ get_test_attempts
    \/ get_user_attempts
    \/ Return

SpecListing == InitListing /\ [][NextListing]_vars

(***************************************************************************)
(* SpecConc: complete_theoretical_testing and complete_practical_testing   *)
(* as coroutines. Every await of a repository call is a point where other  *)
(* requests run: one step per repository call, together with the checks    *)
(* that follow it up to the next await. Each user has at most one request  *)
(* in flight; the callers pass both guards. No transaction spans the       *)
(* steps.                                                                  *)
(***************************************************************************)
Request(pc, op, testing_id, testing, vacancy, questions) ==
    [pc |-> pc, op |-> op, testing_id |-> testing_id, testing |-> testing,
     vacancy |-> vacancy, questions |-> questions]

\* testing = await self._repo.get(id=testing_id), and the not-found check.
conc_load_testing ==
    \E u \in UserIds, op \in {"complete_theoretical_testing",
                             "complete_practical_testing"},
       testing_id \in TestingIds :
       /\ req[u].pc = "idle"
       /\ Len(attempts) < MaxAttempts
       /\ LET testing == TestingRepo_get(testing_id)
          IN  req' = [req EXCEPT ![u] =
                        IF testing = NoRow
                        THEN [pc |-> "idle"]
                        ELSE Request("load_vacancy", op, testing_id, testing,
                                     NoRow, <<>>)]
       /\ UNCHANGED <<vacancies, testings, attempts, now, call>>

\* vacancy = await self._vacancy_repo.get(...), the not-found check and the
\* OPENED check, on the row as it was read.
conc_load_vacancy ==
    \E u \in UserIds :
       /\ req[u].pc = "load_vacancy"
       /\ LET vacancy == VacancyRepo_get(req[u].testing.vacancy_id)
          IN  req' = [req EXCEPT ![u] =
                        IF vacancy = NoRow \/ ~VacancyOpened(vacancy)
                        THEN [pc |-> "idle"]
                        ELSE [req[u] EXCEPT !.pc = "get_first",
                                            !.vacancy = vacancy]]
       /\ UNCHANGED <<vacancies, testings, attempts, now, call>>

\* first_attempt = await self._attempt_repo.get_first(...), and the deadline
\* check with the test_time of the vacancy row read before.
conc_get_first ==
    \E u \in UserIds :
       /\ req[u].pc = "get_first"
       /\ \E first_attempt \in AttemptRepo_get_first(attempts, u, req[u].testing_id) :
             req' = [req EXCEPT ![u] =
                        IF DeadlineExpired(first_attempt, req[u].vacancy, now)
                        THEN [pc |-> "idle"]
                        ELSE [req[u] EXCEPT !.pc = "read_questions"]]
       /\ UNCHANGED <<vacancies, testings, attempts, now, call>>

\* questions = await self._..._question_repo.get_all(testing_id=testing_id)
conc_read_questions ==
    \E u \in UserIds :
       /\ req[u].pc = "read_questions"
       /\ req' = [req EXCEPT ![u] =
                    [req[u] EXCEPT
                       !.pc = "create",
                       !.questions =
                          IF req[u].op = "complete_theoretical_testing"
                          THEN TheoreticalQuestionRepo_get_all(req[u].testing_id)
                          ELSE PracticalQuestionRepo_get_all(req[u].testing_id)]]
       /\ UNCHANGED <<vacancies, testings, attempts, now, call>>

\* await self._attempt_repo.create(...), and the return.
conc_create ==
    \E u \in UserIds :
       /\ req[u].pc = "create"
       /\ attempts' = Append(attempts,
                         AttemptRepo_create(attempts, now, u, req[u].testing_id,
                                            0, Len(req[u].questions)))
       /\ req' = [req EXCEPT ![u] = [pc |-> "idle"]]
       /\ UNCHANGED <<vacancies, testings, now, call>>

NextConc ==
    \/ conc_load_testing
    \/ conc_load_vacancy
    \/ conc_get_first
    \/ conc_read_questions
    \/ conc_create
    \/ update_vacancy_state
    \/ Tick

SpecConc == Init /\ [][NextConc]_vars

(***************************************************************************)
(* What the claims speak about. These definitions read the stores and the  *)
(* answered call directly; they do not use the handlers' definitions.      *)
(***************************************************************************)
StartOps == {"start_practical_testing", "start_theoretical_testing"}

CompleteOps == {"complete_theoretical_testing", "complete_practical_testing"}

LifecycleOps == StartOps \cup CompleteOps

\* A request is answered in this step; call' is its answer, the unprimed
\* stores are the ones it ran against.
Answered == call = Idle /\ call' # Idle

LifecycleAnswered == Answered /\ call'.op \in LifecycleOps

ListingOps == {"get_test_attempts", "get_user_attempts"}

RequiredPermission(op) ==
    CASE op \in StartOps -> START_TESTING
      [] op \in CompleteOps -> COMPLETE_TESTING
      [] op = "get_test_attempts" -> GET_SELF_TEST_RESULTS
      [] op = "get_user_attempts" -> GET_USER_TEST_RESULTS

HasPermission(c) == RequiredPermission(c.op) \in c.user.permissions

IsActive(c) == c.user.state = "ACTIVE"

PassesGuard(c) == HasPermission(c) /\ IsActive(c)

HasTesting(c) == c.args.testing_id \in DOMAIN testings

HasVacancy(c) ==
    /\ HasTesting(c)
    /\ testings[c.args.testing_id].vacancy_id \in DOMAIN vacancies

VacancyOf(c) == vacancies[testings[c.args.testing_id].vacancy_id]

Succeeded(c) == c.error = "none"

TimeExpired(c) == c.error = "BadRequest" /\ c.check = "deadline"

\* The attempts of user_id on testing_id.
Rows(user_id, testing_id) ==
    {attempts[i] : i \in AttemptsOf(attempts, user_id, testing_id)}

\* now is past created_at of the earliest attempt plus test_time days.
PastDeadline(user_id, testing_id, test_time) ==
    \E a \in Rows(user_id, testing_id) :
       /\ \A b \in Rows(user_id, testing_id) : a.created_at <= b.created_at
       /\ now > a.created_at + test_time

QuestionCount(op, testing_id) ==
    IF op = "complete_theoretical_testing"
    THEN Len(TheoreticalQuestionRepo_get_all(testing_id))
    ELSE Len(PracticalQuestionRepo_get_all(testing_id))

(***************************************************************************)
(* C1. For a lifecycle call by a guarded user on an existing testing whose *)
(* vacancy is OPENED, the call is rejected with BadRequest (time expired)  *)
(* if and only if the caller has an attempt on that testing and now is     *)
(* strictly after created_at of the earliest one plus test_time days;      *)
(* otherwise the call succeeds. At exactly the deadline, and with no prior *)
(* attempt, the call passes.                                               *)
(***************************************************************************)
C1_DeadlineRule ==
    [][(/\ LifecycleAnswered
        /\ PassesGuard(call')
        /\ HasVacancy(call')
        /\ VacancyOf(call').state = "OPENED")
       => LET expired == PastDeadline(call'.user.id, call'.args.testing_id,
                                       VacancyOf(call').test_time)
          IN  /\ TimeExpired(call') <=> expired
              /\ Succeeded(call') <=> ~expired
              /\ Rows(call'.user.id, call'.args.testing_id) = {} => Succeeded(call')
      ]_vars

\* A start call passes at exactly the deadline of an attempt made a day before.
C1_Witness ==
    /\ call.op \in StartOps
    /\ Succeeded(call)
    /\ \E a \in Rows(call.user.id, call.args.testing_id) :
          /\ a.created_at < now
          /\ now = a.created_at + VacancyOf(call).test_time

(***************************************************************************)
(* C2. The attempt store changes only in a successful complete call, which *)
(* appends exactly one row: user_id the caller, testing_id the argument,   *)
(* correct_answers 0, total_answers the number of questions of the         *)
(* handler's kind for that testing. Every other step, and every answer     *)
(* that is not a successful complete, leaves the store as it was.          *)
(***************************************************************************)
C2_AttemptsFrame ==
    [][LET created == Answered /\ call'.op \in CompleteOps /\ Succeeded(call')
       IN  /\ attempts' # attempts => created
           /\ created =>
                LET row == attempts'[Len(attempts')]
                IN  /\ Len(attempts') = Len(attempts) + 1
                    /\ SubSeq(attempts', 1, Len(attempts)) = attempts
                    /\ row.user_id = call'.user.id
                    /\ row.testing_id = call'.args.testing_id
                    /\ row.correct_answers = 0
                    /\ row.total_answers =
                          QuestionCount(call'.op, call'.args.testing_id)
      ]_vars

\* A successful complete_theoretical_testing on t1 (two theoretical questions,
\* one practical) has added a second row.
C2_Witness ==
    /\ call.op = "complete_theoretical_testing"
    /\ Succeeded(call)
    /\ call.args.testing_id = "t1"
    /\ Len(attempts) = 2
    /\ attempts[2].total_answers = 2

(***************************************************************************)
(* C3, as claimed. A lifecycle call against a vacancy that is not OPENED   *)
(* fails with BadRequest whether or not the guards pass.                   *)
(***************************************************************************)
C3_AlwaysBadRequest ==
    [][(/\ LifecycleAnswered
        /\ HasVacancy(call')
        /\ VacancyOf(call').state # "OPENED")
       => call'.error = "BadRequest"]_vars

(***************************************************************************)
(* C3, amended. A lifecycle call against a vacancy that is not OPENED      *)
(* never succeeds; when the caller passes both guards it fails with        *)
(* BadRequest (vacancy not opened), and when a guard fails it fails with   *)
(* that guard's error.                                                     *)
(***************************************************************************)
C3_NotOpenedRejected ==
    [][(/\ LifecycleAnswered
        /\ HasVacancy(call')
        /\ VacancyOf(call').state # "OPENED")
       => /\ ~Succeeded(call')
          /\ attempts' = attempts
          /\ PassesGuard(call') =>
                call'.error = "BadRequest" /\ call'.check = "vacancy_state"
          /\ ~PassesGuard(call') => call'.error \in {"Forbidden", "InvalidState"}
      ]_vars

\* A guarded caller with no attempt yet is turned away from a closed vacancy.
C3_Witness ==
    /\ call.op = "complete_practical_testing"
    /\ PassesGuard(call)
    /\ HasVacancy(call)
    /\ VacancyOf(call).state = "CLOSED"
    /\ call.error = "BadRequest"
    /\ call.check = "vacancy_state"

(***************************************************************************)
(* C4. A lifecycle call that passes the guards and names a testing that is *)
(* not in the store fails with NotFound having made the testing lookup     *)
(* only: no vacancy lookup, no first-attempt lookup, no question read, no  *)
(* attempt created.                                                        *)
(***************************************************************************)
C4_MissingTesting ==
    [][(LifecycleAnswered /\ PassesGuard(call') /\ ~HasTesting(call'))
       => /\ call'.error = "NotFound"
          /\ call'.check = "testing"
          /\ call'.trace = <<"testing.get">>
          /\ call'.result = NoRow
          /\ attempts' = attempts
      ]_vars

\* The call names t4 while the caller already has an attempt elsewhere and the
\* vacancy is closed: the later checks never run.
C4_Witness ==
    /\ call.op \in LifecycleOps
    /\ PassesGuard(call)
    /\ call.args.testing_id = "t4"
    /\ call.error = "NotFound"
    /\ vacancies["v1"].state = "CLOSED"
    /\ Len(attempts) > 0

(***************************************************************************)
(* C5. A lifecycle call reports the first failing check in the order:      *)
(* permission, account state, testing exists, vacancy exists, vacancy      *)
(* OPENED, deadline. A call that fails a guard accesses no repository.     *)
(***************************************************************************)
FirstFailingCheck(c) ==
    IF ~HasPermission(c) THEN <<"Forbidden", "permission">>
    ELSE IF ~IsActive(c) THEN <<"InvalidState", "state">>
    ELSE IF ~HasTesting(c) THEN <<"NotFound", "testing">>
    ELSE IF ~HasVacancy(c) THEN <<"NotFound", "vacancy">>
    ELSE IF VacancyOf(c).state # "OPENED" THEN <<"BadRequest", "vacancy_state">>
    ELSE IF PastDeadline(c.user.id, c.args.testing_id, VacancyOf(c).test_time)
         THEN <<"BadRequest", "deadline">>
    ELSE <<"none", "none">>

C5_ValidationOrder ==
    [][LifecycleAnswered
       => /\ <<call'.error, call'.check>> = FirstFailingCheck(call')
          /\ ~PassesGuard(call') => call'.trace = <<>>
          /\ PassesGuard(call') => Len(call'.trace) > 0 /\ call'.trace[1] = "testing.get"
      ]_vars

\* The caller lacks the permission and is inactive, and the testing does not
\* exist either: the permission error is the one reported.
C5_Witness ==
    /\ call.op \in LifecycleOps
    /\ ~HasPermission(call)
    /\ ~IsActive(call)
    /\ ~HasTesting(call)
    /\ call.error = "Forbidden"

(***************************************************************************)
(* C10. The deadline anchor of a (user, testing) pair never moves: once    *)
(* the user has an attempt on the testing, the earliest one stays the      *)
(* earliest, whatever is added. Hence a call fails with time expired only  *)
(* when the pair is past its deadline; a pair past its deadline stays past *)
(* it (the clock does not go back, test_time does not change); and no      *)
(* lifecycle call of a pair past its deadline succeeds. So after one time  *)
(* expired failure no later call of that user on that testing succeeds.    *)
(***************************************************************************)
EarliestRow(user_id, testing_id) ==
    LET mine == AttemptsOf(attempts, user_id, testing_id)
    IN  attempts[CHOOSE i \in mine : \A j \in mine : i <= j]

Expired(user_id, testing_id) ==
    /\ testing_id \in DOMAIN testings
    /\ testings[testing_id].vacancy_id \in DOMAIN vacancies
    /\ PastDeadline(user_id, testing_id,
                    vacancies[testings[testing_id].vacancy_id].test_time)

C10_AnchorFixed ==
    [][\* a step that changes a store or the clock: the earliest row of every
       \* pair is still the same one, and a pair past its deadline stays so
       /\ <<attempts, now, vacancies, testings>>' # <<attempts, now, vacancies, testings>>
          => \A u \in UserIds, t \in TestingIds :
                /\ Rows(u, t) # {} =>
                      /\ Rows(u, t)' # {}
                      /\ EarliestRow(u, t)' = EarliestRow(u, t)
                      /\ \A a \in Rows(u, t)' :
                            a.created_at >= EarliestRow(u, t).created_at
                      /\ \A a \in AttemptRepo_get_first(attempts', u, t) :
                            a.created_at = EarliestRow(u, t).created_at
                /\ Expired(u, t) => Expired(u, t)'
       \* a lifecycle call: it fails with time expired only past the deadline
       \* of its pair, and past the deadline it does not succeed
       /\ LifecycleAnswered
          => LET past == Expired(call'.user.id, call'.args.testing_id)
             IN  /\ TimeExpired(call') => past
                 /\ past => ~Succeeded(call')
      ]_vars

\* The user completed the testing twice, a day apart, and a later call is
\* refused: the deadline is still counted from the first attempt.
C10_Witness ==
    /\ call.op \in LifecycleOps
    /\ TimeExpired(call)
    /\ \E a, b \in Rows(call.user.id, call.args.testing_id) :
          /\ a.created_at < b.created_at
          /\ now > a.created_at + VacancyOf(call).test_time
          /\ now <= b.created_at + VacancyOf(call).test_time

(***************************************************************************)
(* C6. get_test_attempts queries the repository with user_id the caller's  *)
(* id, whatever the arguments, so every row it returns is the caller's:    *)
(* two callers with different ids never receive one another's attempts.    *)
(* get_user_attempts queries with the user_id argument, whoever calls      *)
(* (None: the rows of all users).                                          *)
(***************************************************************************)
RowsOfResult(c) == {c.result[i] : i \in 1..Len(c.result)}

C6_SelfScoped ==
    [][(Answered /\ call'.op \in ListingOps /\ Succeeded(call'))
       => /\ call'.op = "get_test_attempts" =>
                /\ call'.query.user_id = call'.user.id
                /\ call'.query.testing_id = call'.args.testing_id
                /\ \A row \in RowsOfResult(call') : row.user_id = call'.user.id
          /\ call'.op = "get_user_attempts" =>
                /\ call'.query.user_id = call'.args.user_id
                /\ \A row \in RowsOfResult(call') :
                      call'.args.user_id \in {None, row.user_id}
      ]_vars

\* The store holds rows of both users; the caller lists without a testing
\* filter and one page holds all of the caller's rows.
C6_Witness ==
    /\ call.op = "get_test_attempts"
    /\ Succeeded(call)
    /\ call.args.testing_id = None
    /\ \E i \in 1..Len(attempts) : attempts[i].user_id # call.user.id
    /\ Len(call.result) = 2

(***************************************************************************)
(* C7. For a listing call by a guarded user: page < 1 fails with NotFound  *)
(* whatever per_page is, and page >= 1 with per_page < 1 fails with        *)
(* BadRequest; in both cases no repository query is issued.                *)
(***************************************************************************)
C7_PaginationErrors ==
    [][(Answered /\ call'.op \in ListingOps /\ PassesGuard(call'))
       => /\ call'.args.page < 1 =>
                /\ call'.error = "NotFound"
                /\ call'.trace = <<>>
                /\ call'.query = NoQuery
          /\ (call'.args.page >= 1 /\ call'.args.per_page < 1) =>
                /\ call'.error = "BadRequest"
                /\ call'.trace = <<>>
                /\ call'.query = NoQuery
      ]_vars

\* Both arguments are out of range: the page error is the one raised.
C7_Witness ==
    /\ call.op = "get_user_attempts"
    /\ PassesGuard(call)
    /\ call.args.page < 1
    /\ call.args.per_page < 1
    /\ call.error = "NotFound"

(***************************************************************************)
(* C8. For a listing call by a guarded user with page >= 1 and             *)
(* per_page >= 1 the repository is queried with limit = min(per_page, 40), *)
(* within 1..40, and offset = min((page - 1) * limit, 2147483646), within  *)
(* 0..2147483646, the product taken with the clamped limit. The product is *)
(* compared through quotients, which stay within 32 bits.                  *)
(***************************************************************************)
C8_LimitOffset ==
    [][(/\ Answered
        /\ call'.op \in ListingOps
        /\ PassesGuard(call')
        /\ call'.args.page >= 1
        /\ call'.args.per_page >= 1)
       => LET limit == call'.query.limit
              offset == call'.query.offset
              pages == call'.args.page - 1
          IN  /\ Succeeded(call')
              /\ Len(call'.trace) = 1
              /\ limit \in 1..40
              /\ call'.args.per_page <= 40 => limit = call'.args.per_page
              /\ call'.args.per_page > 40 => limit = 40
              /\ offset \in 0..2147483646
              \* offset below the cap: it is the product
              /\ offset < 2147483646 =>
                    offset % limit = 0 /\ offset \div limit = pages
              \* offset at the cap: the product is at least the cap
              /\ offset = 2147483646 => pages > 2147483645 \div limit
      ]_vars

\* per_page is above the limit and the page is far enough for the offset to
\* be capped.
C8_Witness ==
    /\ call.op = "get_test_attempts"
    /\ Succeeded(call)
    /\ call.args.per_page = 41
    /\ call.args.page = 53687093
    /\ call.query.limit = 40
    /\ call.query.offset = 2147483646

(***************************************************************************)
(* C9, as claimed. Under any interleaving of the steps of the complete     *)
(* handlers with vacancy state changes by other requests, every Attempt is *)
(* created at a moment when the vacancy that owns its testing is OPENED.   *)
(***************************************************************************)
C9_CreatedWhileOpened ==
    [][Len(attempts') > Len(attempts)
       => LET row == attempts'[Len(attempts')]
          IN  vacancies[testings[row.testing_id].vacancy_id].state = "OPENED"
      ]_vars

====
